---- MODULE Spec2Model ----
(***************************************************************************)
(* Vectorized table scan of Peloton's code generator:                      *)
(* src/codegen/operator/table_scan_translator.cpp (predicate-first order,  *)
(* the branch compiled when ORIGINAL_ORDER is not defined).                *)
(*                                                                         *)
(* The generated scan is modelled by what it does at run time: for every   *)
(* chunk [tid_start, tid_end) the scan consumer filters by predicate       *)
(* (lane-parallel aligned prefix, scalar remainder, residual pass), then   *)
(* by visibility, assembles a row batch and pushes it downstream.          *)
(***************************************************************************)
EXTENDS Integers, Sequences, FiniteSets, TLC

(***************************************************************************)
(* Bounds of the model.                                                    *)
(***************************************************************************)
\* Column values are 0..MaxVal; 0 is the SQL type's null sentinel.
MaxVal == 2
\* Column A repeats each value MaxStride times at most (see ColumnValue).
MaxStride == 3
\* Capacity of the selection vector.  The source takes it from
\* Vector::kDefaultVectorSize, whose value is set outside this file.
kDefaultVectorSize == 64

(***************************************************************************)
(* Program constants.                                                      *)
(***************************************************************************)
\* uint32_t N = 32;  the lane width of FilterRowsByPredicate
N == 32
\* codegen.Const32(-1): the all-ones 32-bit word, the "whole range" count.
\* 32-bit words are kept as two's-complement integers; the generated code
\* compares them unsigned (CreateICmpULT), which ULT and ULE do.
FullRange == -1
\* the null sentinel of the column type (sql_type.GetNullValue)
NullValue == 0

Val == 0..MaxVal

\* Unsigned order of two 32-bit words held as two's-complement integers.
ULT(a, b) == IF a < 0 THEN (b < 0 /\ a < b) ELSE (b < 0 \/ a < b)
ULE(a, b) == a = b \/ ULT(a, b)

(***************************************************************************)
(* State.                                                                  *)
(***************************************************************************)
VARIABLES
  name,          \* the descriptor GetName() returned last, <<>> before a call
  plan,          \* SeqScanPlan: predicate, simd_predicates, non_simd_predicate
  table,         \* the stored column data and schema nullability
  visKind,       \* which rows the transaction's snapshot can see
  chunks,        \* row ranges the table has still to hand to the consumer
  pc,            \* position of the generated scan
  tid_start,     \* current chunk: first row id
  tid_end,       \* current chunk: one past the last row id
  sel,           \* selection_vector_: the buffer, index 0..capacity-1
  num_elements,  \* selection_vector_: current count (32-bit)
  write_pos,     \* write cursor of the running pass
  idx_cur,       \* read position of the running pass
  non_simd,      \* non_simd_predicate as resolved at FilterRowsByPredicate entry
  stages,        \* steps of ProcessTuples completed for the current chunk
  after_pass1,   \* selection after the lane-parallel + remainder pass
  after_pred,    \* selection after the whole predicate filter
  vis_in,        \* candidate count handed to the visibility check
  batch,         \* the row batch assembled for the current chunk
  n_started,     \* chunk callbacks begun
  n_consumed     \* Consume(batch) calls made

vars == <<name, plan, table, visKind, chunks, pc, tid_start, tid_end, sel,
          num_elements, write_pos, idx_cur, non_simd, stages, after_pass1,
          after_pred, vis_in, batch, n_started, n_consumed>>

(***************************************************************************)
(* Expressions of the plan.                                                *)
(***************************************************************************)
NoExpr == [kind |-> "null"]
Col(c) == [kind |-> "col", col |-> c]
Const(v) == [kind |-> "const", val |-> v]
Cmp(op, l, r) == [kind |-> "cmp", op |-> op, lhs |-> l, rhs |-> r]
Conj(ps) == [kind |-> "and", parts |-> ps]

Ops == {"EQ", "NE", "LT", "LE", "GT", "GE"}

\* The comparison on two non-null values.
CompareRaw(op, a, b) ==
  CASE op = "EQ" -> a = b
    [] op = "NE" -> a # b
    [] op = "LT" -> a < b
    [] op = "LE" -> a <= b
    [] op = "GT" -> a > b
    [] op = "GE" -> a >= b
    [] OTHER -> FALSE

(***************************************************************************)
(* Stored data.  Column A holds runs of length table.stride of the values  *)
(* 0..MaxVal starting at table.offset, or (kind "sparse") the top value in *)
(* the rows SparseRows and 1 elsewhere; column B cycles through the        *)
(* values.  Fixed-width column values are contiguous, so lane i of a block *)
(* starting at row t reads row t + i.                                      *)
(***************************************************************************)
\* Eight rows below N and two in N..N+7, among them 3, 7 and 12.
SparseRows == {3, 7, 12, 15, 19, 23, 27, 31, 35, 39}

ColumnValue(c, t) ==
  IF c = "A"
    THEN IF table.kind = "sparse"
           THEN (IF t \in SparseRows THEN MaxVal ELSE 1)
           ELSE ((t \div table.stride) + table.offset) % (MaxVal + 1)
    ELSE t % (MaxVal + 1)

ColumnNullable(c) == IF c = "A" THEN table.nullableA ELSE TRUE

\* Whether the snapshot of the active transaction sees row t.
IsVisible(t) ==
  CASE visKind = "all" -> TRUE
    [] visKind = "some" -> t \notin {3, 7, 12}
    [] visKind = "thirds" -> t % 3 # 1
    [] OTHER -> FALSE

(***************************************************************************)
(* Scalar evaluation: row.DeriveValue(codegen, expr) on row id t gives a   *)
(* value with a null indicator; Boolean::Reify turns null into false.      *)
(***************************************************************************)
OperandValue(e, t) == IF e.kind = "col" THEN ColumnValue(e.col, t) ELSE e.val

OperandIsNull(e, t) ==
  IF e.kind = "col"
    THEN ColumnNullable(e.col) /\ ColumnValue(e.col, t) = NullValue
    ELSE e.val = NullValue

DeriveCmp(e, t) ==
  LET isnull == OperandIsNull(e.lhs, t) \/ OperandIsNull(e.rhs, t)
  IN  [null |-> isnull,
       val |-> ~isnull /\ CompareRaw(e.op, OperandValue(e.lhs, t),
                                     OperandValue(e.rhs, t))]

\* Three-valued AND over the conjuncts of a conjunction.
DeriveValue(e, t) ==
  IF e.kind = "cmp" THEN DeriveCmp(e, t)
  ELSE LET rs == [i \in DOMAIN e.parts |-> DeriveCmp(e.parts[i], t)]
           anyFalse == \E i \in DOMAIN rs : ~rs[i].null /\ ~rs[i].val
           anyNull == \E i \in DOMAIN rs : rs[i].null
       IN  [null |-> ~anyFalse /\ anyNull, val |-> ~anyFalse /\ ~anyNull]

Reify(v) == ~v.null /\ v.val

(***************************************************************************)
(* Lane-parallel evaluation of one comparison on the row in one lane.      *)
(* A constant operand is splat without a null mask (lhs_is_null stays      *)
(* nullptr); a column operand gets a null mask only when its type is       *)
(* nullable, by comparing the loaded value with the null sentinel.         *)
(***************************************************************************)
LaneIsNull(e, t) ==
  IF e.kind = "col"
    THEN ColumnNullable(e.col) /\ ColumnValue(e.col, t) = NullValue
    ELSE FALSE

LaneCompare(e, t) ==
  LET isnull == LaneIsNull(e.lhs, t) \/ LaneIsNull(e.rhs, t)
  IN  [null |-> isnull,
       val |-> CompareRaw(e.op, OperandValue(e.lhs, t), OperandValue(e.rhs, t))]

\* mask starts all ones and is ANDed with each reified comparison.  A lane
\* whose mask bit is already off loads an unspecified value, and stays off.
RECURSIVE LaneMask(_, _)
LaneMask(preds, t) ==
  IF preds = <<>> THEN TRUE
  ELSE LaneMask(SubSeq(preds, 1, Len(preds) - 1), t)
         /\ Reify(LaneCompare(preds[Len(preds)], t))

\* The remainder loop: mask = true, ANDed with each reified scalar value.
RECURSIVE ScalarMask(_, _)
ScalarMask(preds, t) ==
  IF preds = <<>> THEN TRUE
  ELSE ScalarMask(SubSeq(preds, 1, Len(preds) - 1), t)
         /\ Reify(DeriveValue(preds[Len(preds)], t))

(***************************************************************************)
(* Selection vector and row batch primitives.                              *)
(***************************************************************************)
Capacity == kDefaultVectorSize

\* The row ids of the range [a, b), in order.
RangeRows(a, b) == [i \in 1..(b - a) |-> a + i - 1]

\* The first n entries of the buffer, as a sequence.
Selected(vec, n) == [i \in 1..n |-> vec[i - 1]]

\* Vector::SetValue: a store into the buffer (a store past the end of the
\* buffer is outside the model: the cursor invariant rules it out).
SetValue(vec, pos, v) ==
  IF pos \in DOMAIN vec THEN [vec EXCEPT ![pos] = v] ELSE vec

\* Row::SetValidity through an OutputTracker, row after row: the row id is
\* stored at the write position, which then advances by the validity bit.
RECURSIVE AppendRows(_, _, _, _)
AppendRows(vec, pos, tids, valid) ==
  IF tids = <<>> THEN [vec |-> vec, pos |-> pos]
  ELSE AppendRows(SetValue(vec, pos, Head(tids)),
                  pos + (IF Head(valid) THEN 1 ELSE 0),
                  Tail(tids), Tail(valid))

\* TransactionRuntime::PerformVectorizedRead: the candidates are the whole
\* range when the count is the all-ones word, else the first n entries of
\* the buffer; the visible ones are written back in order, from index 0.
PerformVectorizedRead(vec, start, end, n) ==
  LET cand == IF n = FullRange
                THEN RangeRows(start, end)
                ELSE Selected(vec, n)
      keep == SelectSeq(cand, IsVisible)
  IN  [vec |-> [i \in DOMAIN vec |->
                  IF i < Len(keep) THEN keep[i + 1] ELSE vec[i]],
       out_idx |-> Len(keep)]

(***************************************************************************)
(* Inputs: plans, tables, snapshots and chunk sequences.                   *)
(***************************************************************************)
Plan(p, simd, rest) == [predicate |-> p, simd |-> simd, non_simd |-> rest]

PredA == Cmp("GT", Col("A"), Const(1))
PredB == Cmp("NE", Col("B"), Const(MaxVal))
PredNull == Cmp("NE", Col("A"), Const(NullValue))
PredRest == Cmp("LE", Col("B"), Col("A"))
PredLow == Cmp("GE", Col("A"), Const(1))
\* A comparison-shaped predicate whose operator is none of the six.
PredLike == Cmp("LIKE", Col("A"), Const(1))

ScanPlans ==
  { Plan(NoExpr, <<>>, NoExpr),
    Plan(PredA, <<PredA>>, NoExpr),
    Plan(Conj(<<PredA, PredB>>), <<PredA, PredB>>, NoExpr),
    Plan(PredNull, <<PredNull>>, NoExpr),
    Plan(Conj(<<PredA, PredRest>>), <<PredA>>, PredRest),
    Plan(Conj(<<PredLow, PredRest>>), <<PredLow>>, PredRest),
    Plan(PredRest, <<>>, PredRest),
    Plan(PredRest, <<>>, NoExpr),
    Plan(PredLike, <<PredLike>>, NoExpr),
    Plan(Conj(<<PredA, PredLike>>), <<PredA, PredLike>>, NoExpr),
    Plan(Col("B"), <<>>, NoExpr),
    Plan(Conj(<<PredA, Col("B")>>), <<PredA>>, Col("B")) }

Operands == {Col("A"), Col("B")} \cup {Const(v) : v \in Val}

\* Comparisons of two operands, each a column or a constant, not both
\* constants.
LaneEligible ==
  { Cmp(op, l, r) : op \in Ops,
                    l \in Operands, r \in {x \in Operands : TRUE} }
    \ { Cmp(op, Const(v), Const(w)) : op \in Ops, v \in Val, w \in Val }

LanePlans == { Plan(p, <<p>>, NoExpr) : p \in LaneEligible }

Runs(s, o, nl) == [kind |-> "runs", stride |-> s, offset |-> o, nullableA |-> nl]

ScanTables ==
  { Runs(s, o, TRUE) : s \in 1..MaxStride, o \in Val }
    \cup { [kind |-> "sparse", stride |-> 1, offset |-> 0, nullableA |-> TRUE] }

LaneTables == { Runs(MaxStride, o, nl) : o \in {0, 1}, nl \in BOOLEAN }

VisKinds == {"all", "some", "thirds"}

Range(a, b) == [start |-> a, end |-> b]

\* A chunk has at most Capacity rows (GenerateScan is given the capacity as
\* its batch size); a tile group longer than that comes in several chunks.
ScanChunkLists ==
  { << Range(0, N + 8) >>,
    << Range(0, Capacity), Range(Capacity, Capacity + N + 3), Range(0, 3) >> }

LaneChunkLists == { << Range(0, N + 3) >> }

\* What AllocateBuffer's memory may hold before the first store.
Garbage == {0, 5}

NoBatch == [start |-> 0, end |-> 0, filtered |-> FALSE, rows |-> <<>>]

(***************************************************************************)
(* GetName(): the descriptor is a string; it is kept here as the sequence  *)
(* of the pieces appended, a decimal number as its digit characters.       *)
(***************************************************************************)
NoName == <<>>

Digits == <<"0", "1", "2", "3", "4", "5", "6", "7", "8", "9">>

\* std::to_string of an unsigned number.
RECURSIVE to_string(_)
to_string(n) ==
  IF n < 10 THEN <<Digits[n + 1]>>
  ELSE to_string(n \div 10) \o <<Digits[(n % 10) + 1]>>

\* GetTable().GetName(): the tables of the model are named by their kind.
TableName(tb) == tb.kind

\* predicate->IsSIMDable(): the predicate as a whole can be evaluated by the
\* lane-parallel path.
IsSIMDable(p) == p.simd # <<>> /\ p.non_simd.kind = "null"

(***************************************************************************)
(* Init: the state when Produce() has allocated the selection vector and   *)
(* built the scan consumer, before the first chunk callback.               *)
(***************************************************************************)
InitControl ==
  /\ name = NoName
  /\ pc = "idle"
  /\ tid_start = 0
  /\ tid_end = 0
  /\ num_elements = 0
  /\ write_pos = 0
  /\ idx_cur = 0
  /\ non_simd = NoExpr
  /\ stages = {}
  /\ after_pass1 = <<>>
  /\ after_pred = <<>>
  /\ vis_in = 0
  /\ batch = NoBatch
  /\ n_started = 0
  /\ n_consumed = 0

InitScan ==
  /\ plan \in ScanPlans
  /\ table \in ScanTables
  /\ visKind \in VisKinds
  /\ chunks \in ScanChunkLists
  /\ sel \in { [i \in 0..(Capacity - 1) |-> g] : g \in Garbage }

InitLane ==
  /\ plan \in LanePlans
  /\ table \in LaneTables
  /\ visKind = "all"
  /\ chunks \in LaneChunkLists
  /\ sel = [i \in 0..(Capacity - 1) |-> 0]

Init == InitControl /\ (InitScan \/ InitLane)

(***************************************************************************)
(* ProcessTuples, step by step.                                            *)
(***************************************************************************)
OrigSize(start, end) == end - start
AlignSize(start, end) == N * (OrigSize(start, end) \div N)

\* An entry that takes the plan's residual as it is.
ResolveNonSimdAsPlanned(p) == p.non_simd

\* FilterRowsByPredicate entry: with neither lane-eligible sub-predicates
\* nor a residual, the whole predicate is the residual.
ResolveNonSimd(p) ==
  IF p.simd = <<>> /\ p.non_simd.kind = "null" THEN p.predicate ELSE p.non_simd

\* The SQL type of the value the lane path's switch leaves in comp_val: a
\* comparison's boolean, or the default-constructed value's type.
LaneResultType(p) == IF p.op \in Ops THEN "boolean" ELSE "invalid"

\* The SQL type of the value row.DeriveValue gives for an expression.
ScalarResultType(e) ==
  IF e.kind \in {"cmp", "and"} THEN "boolean" ELSE "integer"

\* Only the scalar results are checked.
AssertsHoldScalarOnly(p) ==
  /\ \A i \in DOMAIN p.simd : ScalarResultType(p.simd[i]) = "boolean"
  /\ ResolveNonSimd(p).kind # "null" =>
       ScalarResultType(ResolveNonSimd(p)) = "boolean"

\* The three PELOTON_ASSERTs FilterRowsByPredicate meets while generating
\* the filter: lane path, remainder loop, residual pass.
AssertsHold(p) ==
  /\ \A i \in DOMAIN p.simd : LaneResultType(p.simd[i]) = "boolean"
  /\ \A i \in DOMAIN p.simd : ScalarResultType(p.simd[i]) = "boolean"
  /\ ResolveNonSimd(p).kind # "null" =>
       ScalarResultType(ResolveNonSimd(p)) = "boolean"

\* An assertion fails while the filter is generated: the process aborts
\* before any chunk is processed.
AssertFail ==
  /\ pc = "idle"
  /\ n_started = 0
  /\ plan.predicate.kind # "null"
  /\ ~AssertsHold(plan)
  /\ pc' = "aborted"
  /\ UNCHANGED <<name, plan, table, visKind, chunks, tid_start, tid_end, sel,
                 num_elements, write_pos, idx_cur, non_simd, stages,
                 after_pass1, after_pred, vis_in, batch, n_started, n_consumed>>

\* The count left as the previous chunk set it.
UnfilteredCountStale == num_elements

\* The count ProcessTuples sets when the plan has no predicate.
UnfilteredCount == FullRange

\* The chunk callback begins: with a predicate, FilterRowsByPredicate is
\* entered and the vectorized iteration starts at position 0 with write
\* position 0; without one the count is set to the whole-range word.
ProcessTuples ==
  /\ pc = "idle"
  /\ chunks # <<>>
  /\ plan.predicate.kind # "null" => AssertsHold(plan)
  /\ tid_start' = Head(chunks).start
  /\ tid_end' = Head(chunks).end
  /\ chunks' = Tail(chunks)
  /\ n_started' = n_started + 1
  /\ stages' = {}
  /\ IF plan.predicate.kind # "null"
       THEN /\ pc' = "lane"
            /\ non_simd' = ResolveNonSimd(plan)
            /\ write_pos' = 0
            /\ idx_cur' = 0
            /\ UNCHANGED num_elements
       ELSE /\ pc' = "vis"
            /\ num_elements' = UnfilteredCount
            /\ UNCHANGED <<non_simd, write_pos, idx_cur>>
  /\ UNCHANGED <<name, plan, table, visKind, sel, after_pass1, after_pred, vis_in,
                 batch, n_consumed>>

\* Every lane taking the first row of the block.
LaneRowsFirstOnly(start, pos) == [i \in 1..N |-> start + pos]

\* One iteration of batch.VectorizedIterate(N, ...): the N rows from batch
\* position idx_cur are masked by the lane-eligible predicates and
\* scattered into the selection vector.
LaneRows(start, pos) == [i \in 1..N |-> start + pos + i - 1]

LaneStep ==
  /\ pc = "lane"
  /\ idx_cur < AlignSize(tid_start, tid_end)
  /\ LET tids == LaneRows(tid_start, idx_cur)
         mask == [i \in 1..N |-> LaneMask(plan.simd, tids[i])]
         r == AppendRows(sel, write_pos, tids, mask)
     IN  /\ sel' = r.vec
         /\ write_pos' = r.pos
  /\ idx_cur' = idx_cur + N
  /\ UNCHANGED <<name, plan, table, visKind, chunks, pc, tid_start, tid_end,
                 num_elements, non_simd, stages, after_pass1, after_pred,
                 vis_in, batch, n_started, n_consumed>>

\* A remainder loop that starts reading at the first row of the range.
RemainderFromRangeStart(start, end) == 0

\* The remainder loop starts reading at align_size ...
RemainderFirstIndex(start, end) == AlignSize(start, end)

\* A remainder loop whose write position starts over.
RemainderWritesFromZero(n) == 0
\* ... and writing at the count the vectorized iteration left.
RemainderFirstWritePos(n) == n

\* VectorizedIterate ends: the write position becomes the count; then the
\* remainder loop's induction variables are set up.
LaneEnd ==
  /\ pc = "lane"
  /\ idx_cur >= AlignSize(tid_start, tid_end)
  /\ num_elements' = write_pos
  /\ idx_cur' = RemainderFirstIndex(tid_start, tid_end)
  /\ write_pos' = RemainderFirstWritePos(write_pos)
  /\ pc' = "rem"
  /\ UNCHANGED <<name, plan, table, visKind, chunks, tid_start, tid_end, sel,
                 non_simd, stages, after_pass1, after_pred, vis_in, batch,
                 n_started, n_consumed>>

\* One iteration of the scalar remainder loop (idx_cur <u orig_size).
RemainderStep ==
  /\ pc = "rem"
  /\ ULT(idx_cur, OrigSize(tid_start, tid_end))
  /\ LET tid == tid_start + idx_cur
         r == AppendRows(sel, write_pos, <<tid>>,
                         <<ScalarMask(plan.simd, tid)>>)
     IN  /\ sel' = r.vec
         /\ write_pos' = r.pos
  /\ idx_cur' = idx_cur + 1
  /\ UNCHANGED <<name, plan, table, visKind, chunks, pc, tid_start, tid_end,
                 num_elements, non_simd, stages, after_pass1, after_pred,
                 vis_in, batch, n_started, n_consumed>>

\* The remainder loop ends: batch.UpdateWritePosition(write_pos); then the
\* residual pass starts if there is a residual predicate.
RemainderEnd ==
  /\ pc = "rem"
  /\ ~ULT(idx_cur, OrigSize(tid_start, tid_end))
  /\ num_elements' = write_pos
  /\ after_pass1' = Selected(sel, write_pos)
  /\ IF non_simd.kind # "null"
       THEN /\ pc' = "residual"
            /\ idx_cur' = 0
            /\ write_pos' = 0
            /\ stages' = stages \cup {"pass1"}
            /\ UNCHANGED after_pred
       ELSE /\ pc' = "vis"
            /\ stages' = stages \cup {"pass1", "pred"}
            /\ after_pred' = Selected(sel, write_pos)
            /\ UNCHANGED <<idx_cur, write_pos>>
  /\ UNCHANGED <<name, plan, table, visKind, chunks, tid_start, tid_end, sel,
                 non_simd, vis_in, batch, n_started, n_consumed>>

\* A residual pass that drops a row only when the residual is false.
ResidualStepKeepingNull ==
  /\ pc = "residual"
  /\ idx_cur < num_elements
  /\ LET tid == sel[idx_cur]
         v == DeriveValue(non_simd, tid)
         r == AppendRows(sel, write_pos, <<tid>>, <<v.null \/ v.val>>)
     IN  /\ sel' = r.vec
         /\ write_pos' = r.pos
  /\ idx_cur' = idx_cur + 1
  /\ UNCHANGED <<name, plan, table, visKind, chunks, pc, tid_start, tid_end,
                 num_elements, non_simd, stages, after_pass1, after_pred,
                 vis_in, batch, n_started, n_consumed>>

\* One row of batch.Iterate over the filtered batch: the row id is read
\* from the selection vector and kept when the residual is true.
ResidualStep ==
  /\ pc = "residual"
  /\ idx_cur < num_elements
  /\ LET tid == sel[idx_cur]
         r == AppendRows(sel, write_pos, <<tid>>,
                         <<Reify(DeriveValue(non_simd, tid))>>)
     IN  /\ sel' = r.vec
         /\ write_pos' = r.pos
  /\ idx_cur' = idx_cur + 1
  /\ UNCHANGED <<name, plan, table, visKind, chunks, pc, tid_start, tid_end,
                 num_elements, non_simd, stages, after_pass1, after_pred,
                 vis_in, batch, n_started, n_consumed>>

ResidualEnd ==
  /\ pc = "residual"
  /\ idx_cur >= num_elements
  /\ num_elements' = write_pos
  /\ after_pred' = Selected(sel, write_pos)
  /\ stages' = stages \cup {"pred"}
  /\ pc' = "vis"
  /\ UNCHANGED <<name, plan, table, visKind, chunks, tid_start, tid_end, sel,
                 write_pos, idx_cur, non_simd, after_pass1, vis_in, batch,
                 n_started, n_consumed>>

\* A ProcessTuples that goes on to the row batch without the visibility
\* filter.
FilterRowsByVisibilitySkipped ==
  /\ pc = "vis"
  /\ vis_in' = num_elements
  /\ stages' = stages \cup {"vis"}
  /\ pc' = "batch"
  /\ UNCHANGED <<name, plan, table, visKind, chunks, tid_start, tid_end, sel,
                 num_elements, write_pos, idx_cur, non_simd, after_pass1,
                 after_pred, batch, n_started, n_consumed>>

\* The visibility check always asked about the whole range.
VisibilityWholeRange(n) == FullRange

\* An empty selection handed over as "whole range".
VisibilityEmptyAsWholeRange(n) == IF n = 0 THEN FullRange ELSE n

\* The candidate count FilterRowsByVisibility hands to the visibility check.
VisibilityCandidates(n) == n

FilterRowsByVisibility ==
  /\ pc = "vis"
  /\ LET r == PerformVectorizedRead(sel, tid_start, tid_end,
                                    VisibilityCandidates(num_elements))
     IN  /\ sel' = r.vec
         /\ num_elements' = r.out_idx
  /\ vis_in' = VisibilityCandidates(num_elements)
  /\ stages' = stages \cup {"vis"}
  /\ pc' = "batch"
  /\ UNCHANGED <<name, plan, table, visKind, chunks, tid_start, tid_end, write_pos,
                 idx_cur, non_simd, after_pass1, after_pred, batch, n_started,
                 n_consumed>>

\* The rows a batch iterates: the entries of the selection vector when it is
\* filtered, every row of its range when it is not.
BatchRows(filtered, start, end, vec, n) ==
  IF filtered THEN Selected(vec, n) ELSE RangeRows(start, end)

\* A batch built unfiltered, as the predicate filter builds its own.
SetupRowBatchUnfiltered ==
  /\ pc = "batch"
  /\ batch' = [start |-> tid_start, end |-> tid_end, filtered |-> FALSE,
               rows |-> BatchRows(FALSE, tid_start, tid_end, sel,
                                  num_elements)]
  /\ stages' = stages \cup {"batch"}
  /\ pc' = "consume"
  /\ UNCHANGED <<name, plan, table, visKind, chunks, tid_start, tid_end, sel,
                 num_elements, write_pos, idx_cur, non_simd, after_pass1,
                 after_pred, vis_in, n_started, n_consumed>>

\* RowBatch batch{..., tid_start, tid_end, selection_vector_, true} and
\* SetupRowBatch: a filtered batch over the selection vector.
SetupRowBatch ==
  /\ pc = "batch"
  /\ batch' = [start |-> tid_start, end |-> tid_end, filtered |-> TRUE,
               rows |-> BatchRows(TRUE, tid_start, tid_end, sel,
                                  num_elements)]
  /\ stages' = stages \cup {"batch"}
  /\ pc' = "consume"
  /\ UNCHANGED <<name, plan, table, visKind, chunks, tid_start, tid_end, sel,
                 num_elements, write_pos, idx_cur, non_simd, after_pass1,
                 after_pred, vis_in, n_started, n_consumed>>

\* A callback that pushes the batch only when it holds a row.
ConsumeUnlessEmpty ==
  /\ pc = "consume"
  /\ n_consumed' = n_consumed + (IF batch.rows = <<>> THEN 0 ELSE 1)
  /\ stages' = stages \cup (IF batch.rows = <<>> THEN {} ELSE {"consume"})
  /\ pc' = "idle"
  /\ UNCHANGED <<name, plan, table, visKind, chunks, tid_start, tid_end, sel,
                 num_elements, write_pos, idx_cur, non_simd, after_pass1,
                 after_pred, vis_in, batch, n_started>>

\* context.Consume(batch) runs and returns; the callback is over.
Consume ==
  /\ pc = "consume"
  /\ n_consumed' = n_consumed + 1
  /\ stages' = stages \cup {"consume"}
  /\ pc' = "idle"
  /\ UNCHANGED <<name, plan, table, visKind, chunks, tid_start, tid_end, sel,
                 num_elements, write_pos, idx_cur, non_simd, after_pass1,
                 after_pred, vis_in, batch, n_started>>

\* GenerateScan has no chunk left: Produce() finishes.
Finish ==
  /\ pc = "idle"
  /\ chunks = <<>>
  /\ pc' = "done"
  /\ UNCHANGED <<name, plan, table, visKind, chunks, tid_start, tid_end, sel,
                 num_elements, write_pos, idx_cur, non_simd, stages,
                 after_pass1, after_pred, vis_in, batch, n_started, n_consumed>>

\* GetName(), asked for between chunk callbacks.
GetName ==
  /\ pc \in {"idle", "done"}
  /\ name' = <<"Scan('", TableName(table), "'">>
               \o (IF plan.predicate.kind # "null" /\ IsSIMDable(plan)
                     THEN <<", ">> \o to_string(kDefaultVectorSize)
                     ELSE <<>>)
               \o <<")">>
  /\ UNCHANGED <<plan, table, visKind, chunks, pc, tid_start, tid_end, sel,
                 num_elements, write_pos, idx_cur, non_simd, stages,
                 after_pass1, after_pred, vis_in, batch, n_started, n_consumed>>

Next ==
  \/ GetName
  \/ AssertFail
  \/ ProcessTuples
  \/ LaneStep
  \/ LaneEnd
  \/ RemainderStep
  \/ RemainderEnd
  \/ ResidualStep
  \/ ResidualEnd
  \/ FilterRowsByVisibility
  \/ SetupRowBatch
  \/ Consume
  \/ Finish

Spec == Init /\ [][Next]_vars

(***************************************************************************)
(* Vocabulary of the properties.                                           *)
(***************************************************************************)
Elements(q) == { q[i] : i \in DOMAIN q }

\* q is a strictly ascending sequence of row ids of [a, b).
AscendingIn(q, a, b) ==
  /\ \A i \in DOMAIN q : q[i] >= a /\ q[i] < b
  /\ \A i \in DOMAIN q : i > 1 => q[i - 1] < q[i]

HasPredicate == plan.predicate.kind # "null"

\* Row t satisfies every comparison of preds under SQL's three-valued logic.
Satisfies(preds, t) == \A i \in DOMAIN preds : Reify(DeriveValue(preds[i], t))

\* Row t satisfies the plan's whole predicate.
SatisfiesPlan(t) == Reify(DeriveValue(plan.predicate, t))

\* The comparisons the plan evaluates.
PlanComparisons ==
  Elements(plan.simd)
    \cup (IF non_simd.kind = "cmp" THEN {non_simd} ELSE {})
    \cup (IF non_simd.kind = "and" THEN Elements(non_simd.parts) ELSE {})

ComparesNull(p, t) == OperandIsNull(p.lhs, t) \/ OperandIsNull(p.rhs, t)

(***************************************************************************)
(* C1.  Every row id in the selection vector of the batch handed to       *)
(* Consume, with or without a predicate, is a row of the chunk that the    *)
(* visibility check reported visible; a row that satisfies the predicate   *)
(* but is invisible is never in the pushed batch.                          *)
(***************************************************************************)
C1_OnlyVisibleRowsPushed ==
  pc = "consume" =>
    /\ batch.filtered
    /\ \A i \in DOMAIN batch.rows :
         /\ IsVisible(batch.rows[i])
         /\ batch.rows[i] >= tid_start /\ batch.rows[i] < tid_end
    /\ \A t \in tid_start..(tid_end - 1) :
         (HasPredicate /\ SatisfiesPlan(t) /\ ~IsVisible(t))
            => t \notin Elements(batch.rows)

\* Rows 3, 7 and 12 satisfy the predicate and are invisible; other rows
\* are pushed.
C1_Witness ==
  /\ pc = "consume"
  /\ HasPredicate
  /\ visKind = "some"
  /\ \A t \in {3, 7, 12} :
       t >= tid_start /\ t < tid_end /\ SatisfiesPlan(t) /\ ~IsVisible(t)
  /\ batch.rows # <<>>

(***************************************************************************)
(* C2.  For a plan whose predicate is a conjunction of lane-eligible      *)
(* comparisons, after FilterRowsByPredicate the selection vector holds     *)
(* exactly the rows of the range that satisfy the predicate, each once, in *)
(* range order: the survivors of the aligned prefix, then those of the     *)
(* remainder, and the count is their number.                               *)
(***************************************************************************)
C2_ExactlyTheSatisfyingRows ==
  ("pred" \in stages /\ plan.simd # <<>> /\ plan.non_simd.kind = "null") =>
    /\ after_pred = SelectSeq(RangeRows(tid_start, tid_end),
                              LAMBDA t : Satisfies(plan.simd, t))
    /\ (pc = "vis" => num_elements = Len(after_pred))

(***************************************************************************)
(* C3.  The selection vector after the first predicate pass, after the     *)
(* residual pass and after the visibility filter is a strictly ascending   *)
(* sequence of row ids of [tid_start, tid_end): no stage reorders,         *)
(* duplicates, or brings in a row id from outside the range.               *)
(***************************************************************************)
C3_AscendingSubsequence ==
  /\ "pass1" \in stages => AscendingIn(after_pass1, tid_start, tid_end)
  /\ "pred" \in stages => AscendingIn(after_pred, tid_start, tid_end)
  /\ "vis" \in stages =>
       AscendingIn(Selected(sel, num_elements), tid_start, tid_end)

\* All three stages have run on a chunk that does not start at row 0, each
\* dropped a row, and at least two rows are left.
C3_Witness ==
  /\ stages = {"pass1", "pred", "vis"}
  /\ plan.non_simd.kind # "null" /\ plan.simd # <<>>
  /\ tid_start > 0
  /\ Len(after_pass1) < tid_end - tid_start
  /\ Len(after_pred) < Len(after_pass1)
  /\ num_elements < Len(after_pred)
  /\ num_elements >= 2

(***************************************************************************)
(* C4.  On the aligned prefix, the rows the lane-parallel path appends     *)
(* for the lane-eligible comparisons are the rows the scalar row-by-row    *)
(* evaluation of the same comparisons keeps.                               *)
(***************************************************************************)
C4_LaneEqualsScalar ==
  (pc = "rem" /\ idx_cur = AlignSize(tid_start, tid_end)
     /\ plan.simd # <<>>) =>
    Selected(sel, num_elements)
      = SelectSeq(RangeRows(tid_start,
                            tid_start + AlignSize(tid_start, tid_end)),
                  LAMBDA t : ScalarMask(plan.simd, t))

(***************************************************************************)
(* C5.  No row for which a comparison of the predicate has a null operand  *)
(* (a null column value or a null constant, on either side) is in the      *)
(* selection vector after the predicate filter, whatever the operator and  *)
(* whether the row lies in the aligned prefix or in the remainder.         *)
(***************************************************************************)
C5_NullOperandExcludes ==
  "pred" \in stages =>
    \A i \in DOMAIN after_pred :
      \A p \in PlanComparisons : ~ComparesNull(p, after_pred[i])

(***************************************************************************)
(* C6.  With no predicate, ProcessTuples marks the whole range unfiltered  *)
(* and the pushed batch's selection vector is exactly the visible rows of  *)
(* the range in ascending order, the count being their number.             *)
(***************************************************************************)
C6_NoPredicateAllVisible ==
  ~HasPredicate =>
    /\ pc = "vis" => num_elements = FullRange
    /\ pc = "consume" =>
         /\ batch.rows = SelectSeq(RangeRows(tid_start, tid_end), IsVisible)
         /\ num_elements = Len(batch.rows)
         /\ batch.rows = Selected(sel, num_elements)

\* Some but not all rows of the chunk are visible.
C6_Witness ==
  /\ ~HasPredicate
  /\ pc = "consume"
  /\ batch.rows # <<>>
  /\ Len(batch.rows) < tid_end - tid_start

(***************************************************************************)
(* C7.  Each stage's output is no larger than its input: the residual pass *)
(* leaves at most the entries the first pass left, the visibility filter   *)
(* at most the entries the predicate filter handed it, and the rows after  *)
(* the visibility filter are among the rows before it.                     *)
(***************************************************************************)
C7_MonotonicNarrowing ==
  /\ "pred" \in stages =>
       /\ Len(after_pred) <= Len(after_pass1)
       /\ Elements(after_pred) \subseteq Elements(after_pass1)
  /\ ("vis" \in stages /\ HasPredicate) =>
       /\ vis_in = Len(after_pred)
       /\ num_elements <= vis_in
       /\ Elements(Selected(sel, num_elements)) \subseteq Elements(after_pred)

\* Both the residual pass and the visibility filter dropped rows.
C7_Witness ==
  /\ "vis" \in stages
  /\ HasPredicate
  /\ Len(after_pred) < Len(after_pass1)
  /\ num_elements < Len(after_pred)
  /\ num_elements > 0

(***************************************************************************)
(* C8.  As claimed: in every state of the scan the selection vector's      *)
(* count (a 32-bit word, compared unsigned) is at most the capacity, and   *)
(* no write cursor is past the capacity.                                   *)
(***************************************************************************)
C8_CountWithinCapacityAlways ==
  /\ ULE(num_elements, Capacity)
  /\ write_pos <= Capacity

(***************************************************************************)
(* C8, amended.  The count is at most the capacity in every state except   *)
(* between ProcessTuples setting it and the visibility filter replacing it *)
(* for a plan with no predicate, where it is the all-ones whole-range      *)
(* word; no write cursor is past the capacity, and a cursor that still has *)
(* a row to store is below it.                                             *)
(***************************************************************************)
C8_CountWithinCapacity ==
  /\ IF pc = "vis" /\ ~HasPredicate
       THEN num_elements = FullRange
       ELSE ULE(num_elements, Capacity)
  /\ write_pos <= Capacity
  /\ (pc = "lane" /\ idx_cur < AlignSize(tid_start, tid_end))
       => write_pos + N <= Capacity
  /\ (pc = "rem" /\ ULT(idx_cur, OrigSize(tid_start, tid_end)))
       => write_pos < Capacity
  /\ (pc = "residual" /\ idx_cur < num_elements) => write_pos < Capacity

\* A chunk of capacity rows filled the buffer to the last entry.
C8_Witness ==
  /\ tid_end - tid_start = Capacity
  /\ pc = "vis"
  /\ num_elements = Capacity
  /\ write_pos = Capacity

(***************************************************************************)
(* C9.  Per chunk callback the steps run in the order predicate filter (if *)
(* there is a predicate), visibility filter, row-batch assembly, one       *)
(* Consume; Consume is called once per chunk, also for an empty batch,     *)
(* never before the visibility filter ran for that chunk, and the next     *)
(* chunk begins only after that Consume returned.                          *)
(***************************************************************************)
C9_StepOrder ==
  /\ ("vis" \in stages /\ HasPredicate) => {"pass1", "pred"} \subseteq stages
  /\ "pred" \in stages => "pass1" \in stages
  /\ "batch" \in stages => "vis" \in stages
  /\ "consume" \in stages => "batch" \in stages
  /\ pc = "consume" => {"vis", "batch"} \subseteq stages
  /\ pc \in {"idle", "done", "aborted"} => n_consumed = n_started
  /\ pc \notin {"idle", "done", "aborted"} => n_consumed = n_started - 1
  /\ (pc \in {"idle", "done"} /\ n_started > 0) => "consume" \in stages

\* The second chunk's Consume has returned, and its batch was empty.
C9_Witness ==
  /\ pc = "idle"
  /\ n_consumed = 2
  /\ batch.rows = <<>>
  /\ batch.end > batch.start
  /\ "consume" \in stages

(***************************************************************************)
(* C10.  The selection vector pushed for a chunk (its entries up to the    *)
(* count, and the count) is a function of that chunk's rows, predicate and *)
(* visibility alone: it is the same whatever entries and count the buffer  *)
(* held when the chunk's processing began.                                 *)
(***************************************************************************)
\* What the chunk's rows, the predicate and the snapshot determine.
ChunkDetermined(a, b) ==
  SelectSeq(RangeRows(a, b),
            LAMBDA t :
              /\ HasPredicate =>
                   /\ IF t - a < AlignSize(a, b)
                        THEN LaneMask(plan.simd, t)
                        ELSE ScalarMask(plan.simd, t)
                   /\ ResolveNonSimd(plan).kind # "null"
                        => Reify(DeriveValue(ResolveNonSimd(plan), t))
              /\ IsVisible(t))

C10_BufferOverwritten ==
  pc = "consume" =>
    /\ batch.rows = ChunkDetermined(tid_start, tid_end)
    /\ num_elements = Len(batch.rows)
    /\ Selected(sel, num_elements) = batch.rows

\* The third chunk is pushed with fewer entries than the chunk before it
\* left in the buffer.
C10_Witness ==
  /\ pc = "consume"
  /\ n_started = 3
  /\ batch.rows # <<>>
  /\ \E i \in Len(batch.rows)..(Capacity - 1) :
       sel[i] \notin tid_start..(tid_end - 1) /\ sel[i] \notin Garbage

(***************************************************************************)
(* C13.  The residual pass runs over the already narrowed selection        *)
(* vector: the residual is evaluated only for row ids the first pass left, *)
(* a row is kept exactly when the residual is true (dropped when false or  *)
(* null), and the kept rows are compacted in place in their order.         *)
(***************************************************************************)
ResidualTrue(t) == Reify(DeriveValue(non_simd, t))

C13_ResidualOverNarrowed ==
  /\ pc = "residual" =>
       /\ num_elements = Len(after_pass1)
       /\ \A i \in idx_cur..(num_elements - 1) : sel[i] = after_pass1[i + 1]
       /\ Selected(sel, write_pos)
            = SelectSeq(SubSeq(after_pass1, 1, idx_cur), ResidualTrue)
  /\ ("pred" \in stages /\ non_simd.kind # "null") =>
       /\ after_pred = SelectSeq(after_pass1, ResidualTrue)
       /\ \A i \in DOMAIN after_pred :
            LET v == DeriveValue(non_simd, after_pred[i])
            IN  v.val /\ ~v.null

\* The first pass dropped a row, and of the rows it left the residual kept
\* one, found one false and found one null.
C13_Witness ==
  /\ "pred" \in stages
  /\ plan.simd # <<>> /\ non_simd.kind # "null"
  /\ Len(after_pass1) < tid_end - tid_start
  /\ after_pred # <<>>
  /\ \E i \in DOMAIN after_pass1 : DeriveValue(non_simd, after_pass1[i]).null
  /\ \E i \in DOMAIN after_pass1 :
       LET v == DeriveValue(non_simd, after_pass1[i]) IN ~v.null /\ ~v.val

(***************************************************************************)
(* C14.  With a predicate but neither lane-eligible sub-predicates nor a   *)
(* residual in the plan, the whole predicate is the residual: the first    *)
(* pass appends every row id of the range and the residual pass keeps      *)
(* exactly the rows for which the predicate is true.                       *)
(***************************************************************************)
C14_WholePredicateAsResidual ==
  (HasPredicate /\ plan.simd = <<>> /\ plan.non_simd.kind = "null") =>
    /\ pc \in {"lane", "rem", "residual"} => non_simd = plan.predicate
    /\ "pass1" \in stages => after_pass1 = RangeRows(tid_start, tid_end)
    /\ "pred" \in stages =>
         after_pred = SelectSeq(RangeRows(tid_start, tid_end), SatisfiesPlan)

\* Such a plan on a chunk with prefix and remainder, some rows dropped.
C14_Witness ==
  /\ HasPredicate /\ plan.simd = <<>> /\ plan.non_simd.kind = "null"
  /\ "pred" \in stages
  /\ tid_end - tid_start > N
  /\ (tid_end - tid_start) % N # 0
  /\ after_pred # <<>>
  /\ Len(after_pred) < Len(after_pass1)

(***************************************************************************)
(* C15.  When the predicate filter leaves no survivor, the visibility      *)
(* check is handed candidate count 0 and the pushed batch is empty; the    *)
(* whole-range count -1 is handed over only when the plan has no           *)
(* predicate.                                                              *)
(***************************************************************************)
C15_EmptyIsNotWholeRange ==
  "vis" \in stages =>
    /\ vis_in = FullRange <=> ~HasPredicate
    /\ (HasPredicate /\ after_pred = <<>>) =>
         /\ vis_in = 0
         /\ num_elements = 0
         /\ pc = "consume" => batch.rows = <<>>

\* No row of a chunk with visible rows satisfies the predicate.
C15_Witness ==
  /\ pc = "consume"
  /\ HasPredicate
  /\ after_pred = <<>>
  /\ vis_in = 0
  /\ \E t \in tid_start..(tid_end - 1) : IsVisible(t)

(***************************************************************************)
(* C16.  In every pass of FilterRowsByPredicate the write cursor starts at *)
(* 0 for the chunk, advances by one per kept row and never decreases, the  *)
(* remainder loop continues from the cursor the aligned prefix ended at,   *)
(* and the cursor never exceeds the number of rows already examined, so    *)
(* the residual compaction never overwrites an entry not yet read.         *)
(***************************************************************************)
\* Whether the first pass keeps row t of the chunk [a, b).
FirstPassKeeps(a, b, t) ==
  IF t - a < AlignSize(a, b) THEN LaneMask(plan.simd, t)
                             ELSE ScalarMask(plan.simd, t)

C16_CursorState ==
  /\ pc \in {"lane", "rem"} =>
       /\ write_pos <= idx_cur
       /\ write_pos = Cardinality({ t \in tid_start..(tid_start + idx_cur - 1) :
                                      FirstPassKeeps(tid_start, tid_end, t) })
  /\ pc = "residual" =>
       /\ write_pos <= idx_cur
       /\ write_pos = Cardinality({ i \in 1..idx_cur :
                                      ResidualTrue(after_pass1[i]) })

C16_CursorStep ==
  /\ (pc = "idle" /\ pc' = "lane") => write_pos' = 0
  /\ (pc = "lane" /\ pc' = "lane") =>
       /\ write_pos' >= write_pos
       /\ write_pos' - write_pos <= idx_cur' - idx_cur
  /\ (pc = "lane" /\ pc' = "rem") =>
       /\ write_pos' = write_pos
       /\ idx_cur' = AlignSize(tid_start, tid_end)
  /\ (pc = "rem" /\ pc' = "rem") =>
       /\ write_pos' \in {write_pos, write_pos + 1}
       /\ idx_cur' = idx_cur + 1
  /\ (pc = "rem" /\ pc' = "residual") => write_pos' = 0 /\ idx_cur' = 0
  /\ (pc = "residual" /\ pc' = "residual") =>
       /\ write_pos' \in {write_pos, write_pos + 1}
       /\ idx_cur' = idx_cur + 1
       /\ \A i \in idx_cur'..(num_elements - 1) : sel'[i] = sel[i]

C16_CursorDiscipline == []C16_CursorState /\ [][C16_CursorStep]_vars

\* The residual pass is under way behind its read position, after a first
\* pass that kept rows of the prefix and of the remainder.
C16_Witness ==
  /\ pc = "residual"
  /\ 0 < write_pos /\ write_pos < idx_cur /\ idx_cur < num_elements
  /\ \E i \in DOMAIN after_pass1 :
       after_pass1[i] - tid_start < AlignSize(tid_start, tid_end)
  /\ \E i \in DOMAIN after_pass1 :
       after_pass1[i] - tid_start >= AlignSize(tid_start, tid_end)

(***************************************************************************)
(* C11.  GetName() returns a descriptor with the table name and, if and    *)
(* only if a vectorizable predicate is present, the lane width N that      *)
(* FilterRowsByPredicate partitions the range by; without a predicate or   *)
(* with one that is not vectorizable no width is included.                 *)
(***************************************************************************)
DigitValue(ch) == CHOOSE d \in 0..9 : Digits[d + 1] = ch

RECURSIVE ParseNumber(_)
ParseNumber(q) ==
  IF q = <<>> THEN 0
  ELSE 10 * ParseNumber(SubSeq(q, 1, Len(q) - 1)) + DigitValue(q[Len(q)])

\* The pieces of a descriptor between the quoted table name and ")".
NameTail(d) == SubSeq(d, 4, Len(d) - 1)

NameHasWidth(d) == NameTail(d) # <<>> /\ Head(NameTail(d)) = ", "

NameWidth(d) == ParseNumber(Tail(NameTail(d)))

C11_NameCarriesLaneWidth ==
  name # NoName =>
    /\ name[1] = "Scan('" /\ name[2] = TableName(table) /\ name[3] = "'"
    /\ name[Len(name)] = ")"
    /\ NameHasWidth(name) <=> (HasPredicate /\ IsSIMDable(plan))
    /\ NameHasWidth(name) => NameWidth(name) = N
    /\ ~NameHasWidth(name) => NameTail(name) = <<>>

(***************************************************************************)
(* C12.  Every predicate result reified into a filter decision (lane       *)
(* comparison, remainder value, residual value) has boolean type; if one   *)
(* does not, also when a lane-eligible predicate's operator is none of the *)
(* six comparisons and no comparison value is produced, code generation    *)
(* ends in a fatal assertion failure and no filter is emitted.             *)
(***************************************************************************)
ReifiedAreBoolean ==
  /\ \A i \in DOMAIN plan.simd :
       /\ plan.simd[i].kind = "cmp" /\ plan.simd[i].op \in Ops
       /\ ScalarResultType(plan.simd[i]) = "boolean"
  /\ ResolveNonSimd(plan).kind \in {"null", "cmp", "and"}

C12_ReifiedResultsAreBoolean ==
  /\ (HasPredicate /\ (n_started > 0 \/ pc \notin {"idle", "aborted"})) =>
       ReifiedAreBoolean
  /\ (HasPredicate /\ ~ReifiedAreBoolean) =>
       /\ pc \in {"idle", "aborted"}
       /\ n_started = 0 /\ n_consumed = 0
       /\ stages = {} /\ batch = NoBatch
       /\ after_pass1 = <<>> /\ after_pred = <<>>
       /\ \A i \in DOMAIN sel : sel[i] \in Garbage
  /\ pc = "aborted" => (HasPredicate /\ ~ReifiedAreBoolean)

\* Generation has aborted on a lane-eligible predicate whose operator is
\* none of the six comparisons, listed after a well-typed one.
C12_Witness ==
  /\ pc = "aborted"
  /\ Len(plan.simd) = 2
  /\ plan.simd[1].op \in Ops
  /\ plan.simd[2].op \notin Ops
  /\ chunks # <<>>

====
